---- MODULE Spec2Model ----
(***************************************************************************)
(* Model of the Inoreader MCP server: the tool dispatcher's lazily built   *)
(* client (index.ts getClient), the Token Provider (auth.ts                *)
(* getValidAccessToken, refreshAccessToken), the Secret Store (keychain.ts *)
(* saveTokens, loadTokens and the macOS / Linux shell commands) and the    *)
(* authenticated API client (client.ts InoreaderClient.request and         *)
(* tryRefreshToken).  Tool invocations run as interleaved async flows;     *)
(* every action is one resumption of a flow after an awaited I/O.          *)
(***************************************************************************)
EXTENDS Integers, Sequences, FiniteSets, TLC

\* ---------------------------------------------------------------- bounds
\* concurrent tool invocations
NumCalls == 2
\* successful answers of the upstream token endpoint
MaxIssued == 2

Calls == 1..NumCalls

\* ------------------------------------------------------- JavaScript values
Undefined == "undefined"

Truthy(s) == s /= Undefined /\ s /= ""

Num(n) == [t |-> "num", v |-> n]
NaN == [t |-> "nan", v |-> 0]
NullNum == [t |-> "null", v |-> 0]
UndefinedNum == [t |-> "undefined", v |-> 0]

TruthyNum(x) == x.t = "num" /\ x.v /= 0

\* x * k and x + y on JavaScript numbers: undefined operands give NaN
Times(x, k) == IF x.t = "num" THEN Num(x.v * k) ELSE NaN
Plus(x, y) == IF x.t = "num" /\ y.t = "num" THEN Num(x.v + y.v) ELSE NaN
\* x < y is false when an operand is NaN
LessThan(x, y) == x.t = "num" /\ y.t = "num" /\ x.v < y.v

\* --------------------------------------------------------------- time
StartTime == 10 * 60 * 1000
HourMs == 60 * 60 * 1000
ExpiryBufferMs == 5 * 60 * 1000

\* ------------------------------------------------------------ token data
TokenData(a, r, e) ==
    [isNull |-> FALSE, accessToken |-> a, refreshToken |-> r, expiresAt |-> e]
NullTokens ==
    [isNull |-> TRUE, accessToken |-> Undefined, refreshToken |-> Undefined,
     expiresAt |-> UndefinedNum]

\* the keychain entry: nothing, a JSON object or a string that is no JSON
Absent ==
    [kind |-> "absent", accessToken |-> Undefined, refreshToken |-> Undefined,
     expiresAt |-> UndefinedNum]
Garbage ==
    [kind |-> "garbage", accessToken |-> Undefined, refreshToken |-> Undefined,
     expiresAt |-> UndefinedNum]
\* a JSON text of a value that is no object, such as 123 or "abc"
JsonValue ==
    [kind |-> "value", accessToken |-> Undefined, refreshToken |-> Undefined,
     expiresAt |-> UndefinedNum]

\* JSON.stringify drops undefined members (they read back as undefined) and
\* writes NaN as null
JSONstringify(tokens) ==
    [kind |-> "json",
     accessToken |-> tokens.accessToken,
     refreshToken |-> tokens.refreshToken,
     expiresAt |-> IF tokens.expiresAt.t = "nan" THEN NullNum ELSE tokens.expiresAt]

\* JSON.parse inside loadTokens: a parse error gives null; a number or a
\* string is returned as it is, and its members read as undefined
JSONparse(data) ==
    IF data.kind = "json"
    THEN TokenData(data.accessToken, data.refreshToken, data.expiresAt)
    ELSE IF data.kind = "value"
    THEN TokenData(Undefined, Undefined, UndefinedNum)
    ELSE NullTokens

\* loadTokens: the lookup command fails when there is no entry
loadTokens(platform, entry) ==
    IF platform \notin {"darwin", "linux"} THEN NullTokens
    ELSE IF entry.kind = "absent" THEN NullTokens
    ELSE JSONparse(entry)

\* tryRefreshToken, line 28: !tokens?.refreshToken
LacksRefreshTokenIgnoringEmpty(tokens) == tokens.isNull

LacksRefreshToken(tokens) == tokens.isNull \/ ~Truthy(tokens.refreshToken)

\* getValidAccessToken: stored expiry less than 5 minutes ahead
isExpiredWithoutBuffer(tokens, t) ==
    TruthyNum(tokens.expiresAt) /\ LessThan(tokens.expiresAt, Num(t))

\* a pair without expiry taken for expired
isExpiredWhenNoExpiry(tokens, t) ==
    \/ ~TruthyNum(tokens.expiresAt)
    \/ LessThan(tokens.expiresAt, Num(t + ExpiryBufferMs))

isExpired(tokens, t) ==
    TruthyNum(tokens.expiresAt)
    /\ LessThan(tokens.expiresAt, Num(t + ExpiryBufferMs))

\* the object handed to saveTokens after a refresh, as its JSON text
RefreshedRefreshTokenNotCarried(newTokens, tokens) == newTokens.refresh_token

RefreshedRefreshToken(newTokens, tokens) ==
    IF Truthy(newTokens.refresh_token)
    THEN newTokens.refresh_token ELSE tokens.refreshToken

RefreshedData(newTokens, tokens, t) ==
    JSONstringify(TokenData(newTokens.access_token,
                            RefreshedRefreshToken(newTokens, tokens),
                            Plus(Num(t), Times(newTokens.expires_in, 1000))))

\* ------------------------------------------------------------- results
MsgExpired ==
    "Authentication failed. Token may be expired. Run 'bun run start auth login' to re-authenticate."
MsgForbidden == "Access forbidden. API access requires Inoreader Pro."
MsgApiFailed == "API request failed: "
MsgNotAuthenticated == "Not authenticated. Run 'inoreader-mcp auth login' first"
MsgRefreshFailed == "Failed to refresh token"

Result(k, m, st, v) == [kind |-> k, msg |-> m, status |-> st, value |-> v]
NoResult == Result("none", "", 0, "")

AuthenticationError(m) == Result("AuthenticationError", m, 0, "")
InoreaderClientErrorWithoutStatus(st) == Result("InoreaderClientError", MsgApiFailed, 0, "")
\* `API request failed: ${response.status} ${response.statusText}`
InoreaderClientError(st) == Result("InoreaderClientError", MsgApiFailed, st, "")
StartupError(m) == Result("Error", m, 0, "")

\* ------------------------------------------------------ upstream answers
Resp(st, ct, b) == [status |-> st, ctype |-> ct, body |-> b]
NetworkFailure == Resp(0, "", "")

JsonBody == "{\"ok\":true}"
BadJsonBody == "{\"ok\":"

ApiResponses ==
    { Resp(200, "application/json; charset=utf-8", JsonBody),
      Resp(200, "text/plain", "OK"),
      Resp(204, "", ""),
      Resp(401, "text/plain", "Unauthorized"),
      Resp(403, "text/plain", "Forbidden"),
      Resp(404, "text/html", "Not Found"),
      Resp(500, "text/plain", "Internal Server Error"),
      NetworkFailure }

\* response.ok
Ok(resp) == resp.status >= 200 /\ resp.status <= 299

\* contentType.includes("application/json")
IncludesJson(ct) == ct \in {"application/json", "application/json; charset=utf-8"}

\* response.json(): the decoded body, or a SyntaxError
ResponseJson(resp) ==
    IF resp.body = JsonBody THEN Result("json", "", 0, resp.body)
    ELSE Result("SyntaxError", "JSON Parse error", 0, "")

\* request, lines 109-126: the result of a 2xx response
Shape(resp) ==
    IF IncludesJson(resp.ctype) THEN ResponseJson(resp)
    ELSE IF resp.status = 204 \/ resp.status = 205 THEN Result("void", "", 0, "")
    ELSE IF resp.body = "" THEN Result("void", "", 0, "")
    ELSE Result("text", "", 0, resp.body)

\* request, lines 80-104: what a response leads to, given the retry flag
ClassifyForbiddenAsExpiry(resp, retried) ==
    IF resp = NetworkFailure THEN "throw"
    ELSE IF resp.status \in {401, 403} /\ ~retried THEN "refresh"
    ELSE IF resp.status \in {401, 403} THEN "expired"
    ELSE IF ~Ok(resp) THEN "failed"
    ELSE "ok"

Classify(resp, retried) ==
    IF resp = NetworkFailure THEN "throw"
    ELSE IF resp.status = 401 /\ ~retried THEN "refresh"
    ELSE IF resp.status = 401 THEN "expired"
    ELSE IF resp.status = 403 THEN "forbidden"
    ELSE IF ~Ok(resp) THEN "failed"
    ELSE "ok"

\* the error request throws for a response that is neither 2xx nor refreshed
Thrown(resp, retried) ==
    CASE Classify(resp, retried) = "throw" -> Result("TypeError", "fetch failed", 0, "")
      [] Classify(resp, retried) = "expired" -> AuthenticationError(MsgExpired)
      [] Classify(resp, retried) = "forbidden" -> AuthenticationError(MsgForbidden)
      [] OTHER -> InoreaderClientError(resp.status)

\* the token endpoint's answers; n numbers the tokens it issues
TokenBody(a, r, e) == [kind |-> "ok", access_token |-> a, refresh_token |-> r, expires_in |-> e]
NoTokenBody == [TokenBody(Undefined, Undefined, UndefinedNum) EXCEPT !.kind = "none"]
\* a rejected fetch, a non-2xx status, a body that is no JSON
TokenFailures == {"network", "status", "badjson"}
TokenBodies(n) ==
    LET a == "A" \o ToString(n)
        r == "R" \o ToString(n)
    IN  { TokenBody(a, r, Num(3600)),
          TokenBody(a, Undefined, Num(3600)),
          TokenBody(a, "", Num(3600)),
          TokenBody(Undefined, r, Num(3600)),
          TokenBody(a, r, UndefinedNum) }

\* ------------------------------------------------- tools and client methods
ReadState == "user/-/state/com.google/read"
StarredStream == "user/-/state/com.google/starred"
ReadingList == "user/-/state/com.google/reading-list"

\* the tools of index.ts that the model distinguishes
ToolNames ==
    {"get_user_info", "get_unread_counts", "get_articles", "get_starred_articles",
     "mark_as_read", "mark_as_unread"}

\* an invocation and its arguments; an argument that is not passed is undefined
\* (given: item_ids was passed)
GetUserInfo ==
    [name |-> "get_user_info", count |-> UndefinedNum, item_ids |-> <<>>,
     given |-> FALSE, stream_id |-> Undefined, unread_only |-> TRUE,
     title |-> Undefined, addToFolder |-> Undefined, removeFromFolder |-> Undefined]

\* z.number().min(1).max(100).default(20)
CountSchemaWithoutMin(count) ==
    count.t = "undefined" \/ (count.t = "num" /\ count.v <= 100)

CountSchema(count) ==
    count.t = "undefined" \/ (count.t = "num" /\ count.v >= 1 /\ count.v <= 100)

\* the parsed value the handler receives: .default(20)
ParsedCount(count) == IF count.t = "undefined" THEN Num(20) ELSE count

\* the SDK validates the arguments against the tool's schema before the handler
SchemaAccepts(op) ==
    op.name \in {"get_articles", "get_starred_articles"} => CountSchema(op.count)

\* encodeURIComponent on the stream ids in use
encodeURIComponent(s) ==
    CASE s = StarredStream -> "user%2F-%2Fstate%2Fcom.google%2Fstarred"
      [] s = ReadingList -> "user%2F-%2Fstate%2Fcom.google%2Freading-list"
      [] s = "feed/1" -> "feed%2F1"
      [] OTHER -> s

\* an outgoing API request: method, endpoint, the query's n, xt and it, the body
Req(method, endpoint, n, xt, it, body) ==
    [method |-> method, endpoint |-> endpoint, n |-> n, xt |-> xt, it |-> it,
     body |-> body]
NoReq == Req("", "", UndefinedNum, Undefined, Undefined, <<>>)

\* Math.min on JavaScript numbers
MathMin(x, y) ==
    IF x.t = "num" /\ y.t = "num" THEN (IF x.v < y.v THEN x ELSE y) ELSE NaN

\* options.count ?? 20
OrDefault(x, d) == IF x.t \in {"undefined", "null"} THEN d ELSE x

\* getStreamContents, line 160: the page size of the outgoing request
PageSize(count) == MathMin(OrDefault(count, Num(20)), Num(1000))

getStreamContents(streamId, count, excludeTarget, includeAllItems) ==
    Req("GET", "/stream/contents/" \o encodeURIComponent(streamId),
        PageSize(count),
        IF Truthy(excludeTarget) THEN excludeTarget ELSE Undefined,
        IF includeAllItems THEN ReadState ELSE Undefined,
        <<>>)

\* count = 20: a default parameter replaces an undefined argument only
DefaultParam(x, d) == IF x.t = "undefined" THEN d ELSE x

getStarredItems(count) ==
    getStreamContents(StarredStream, DefaultParam(count, Num(20)), Undefined, TRUE)

getUnreadItems(count) ==
    getStreamContents(ReadingList, DefaultParam(count, Num(20)), ReadState, FALSE)

\* body.append("i", id) for each id
ItemIdFields(item_ids) == [k \in 1..Len(item_ids) |-> <<"i", item_ids[k]>>]

\* what a client method does: sends a request, returns without one, or throws
Sends(req) == [act |-> "request", req |-> req, res |-> NoResult]
Returns == [act |-> "return", req |-> NoReq, res |-> Result("void", "", 0, "")]
Throws(res) == [act |-> "throw", req |-> NoReq, res |-> res]

MsgNoOption ==
    "At least one option (title, addToFolder, or removeFromFolder) is required"
MsgSameFolder == "Cannot add and remove from the same folder"
\* new InoreaderClientError(message): no status
ValidationError(m) == Result("InoreaderClientError", m, 0, "")

markAsUnread(item_ids) ==
    IF Len(item_ids) = 0 THEN Returns
    ELSE Sends(Req("POST", "/edit-tag", UndefinedNum, Undefined, Undefined,
                   << <<"r", ReadState>> >> \o ItemIdFields(item_ids)))

markAsRead(given, item_ids, streamId) ==
    IF given /\ Len(item_ids) > 0
    THEN Sends(Req("POST", "/edit-tag", UndefinedNum, Undefined, Undefined,
                   << <<"a", ReadState>> >> \o ItemIdFields(item_ids)))
    ELSE IF Truthy(streamId)
    THEN Sends(Req("POST", "/mark-all-as-read", UndefinedNum, Undefined, Undefined,
                   << <<"s", streamId>> >>))
    ELSE Returns

editSubscriptionUnchecked(title, addToFolder, removeFromFolder) ==
    Sends(Req("POST", "/subscription/edit", UndefinedNum, Undefined, Undefined,
              << <<"ac", "edit">>, <<"s", "feed/1">> >>
              \o (IF Truthy(title) THEN << <<"t", title>> >> ELSE <<>>)))

editSubscription(title, addToFolder, removeFromFolder) ==
    IF ~Truthy(title) /\ ~Truthy(addToFolder) /\ ~Truthy(removeFromFolder)
    THEN Throws(ValidationError(MsgNoOption))
    ELSE IF Truthy(addToFolder) /\ Truthy(removeFromFolder)
            /\ addToFolder = removeFromFolder
    THEN Throws(ValidationError(MsgSameFolder))
    ELSE Sends(Req("POST", "/subscription/edit", UndefinedNum, Undefined, Undefined,
                   << <<"ac", "edit">>, <<"s", "feed/1">> >>
                   \o (IF Truthy(title) THEN << <<"t", title>> >> ELSE <<>>)
                   \o (IF Truthy(addToFolder)
                       THEN << <<"a", "user/-/label/" \o encodeURIComponent(addToFolder)>> >>
                       ELSE <<>>)
                   \o (IF Truthy(removeFromFolder)
                       THEN << <<"r", "user/-/label/" \o encodeURIComponent(removeFromFolder)>> >>
                       ELSE <<>>)))

\* the client method an invocation calls once getClient has returned
Method(op) ==
    CASE op.name = "get_user_info" ->
            Sends(Req("GET", "/user-info", UndefinedNum, Undefined, Undefined, <<>>))
      [] op.name = "get_unread_counts" ->
            Sends(Req("GET", "/unread-count", UndefinedNum, Undefined, Undefined, <<>>))
      [] op.name = "get_articles" ->
            Sends(IF Truthy(op.stream_id)
                  THEN getStreamContents(op.stream_id, ParsedCount(op.count),
                                         IF op.unread_only THEN ReadState ELSE Undefined,
                                         FALSE)
                  ELSE IF op.unread_only THEN getUnreadItems(ParsedCount(op.count))
                  ELSE getStreamContents(ReadingList, ParsedCount(op.count),
                                         Undefined, FALSE))
      [] op.name = "get_starred_articles" ->
            Sends(getStarredItems(ParsedCount(op.count)))
      [] op.name = "mark_as_read" -> markAsRead(op.given, op.item_ids, op.stream_id)
      [] op.name = "mark_as_unread" -> markAsUnread(op.item_ids)
      [] op.name = "getStreamContents" ->
            Sends(getStreamContents(op.stream_id, op.count, Undefined, FALSE))
      [] OTHER -> editSubscription(op.title, op.addToFolder, op.removeFromFolder)

\* ---------------------------------------------------------- tool replies
\* what a tool handler returns: the text payload and the isError flag
Reply(k, e, text, items) == [kind |-> k, isError |-> e, text |-> text, items |-> items]
NoReply == Reply("none", FALSE, "", 0)

MsgEither == "Provide either item_ids or stream_id"
MsgInvalidArguments == "Invalid arguments"

\* handleToolError: { error: message } with isError: true
handleToolError(e) == Reply("error", TRUE, e.msg, 0)

IsError(res) == res.kind \notin {"json", "void", "text", "none"}

\* the handlers without the early return of mark_as_read
BeforeWithoutEarlyReturn(op) ==
    IF op.name \in ToolNames /\ ~SchemaAccepts(op)
    THEN Reply("invalid", TRUE, MsgInvalidArguments, 0)
    ELSE NoReply

\* what a handler does before it calls getClient: nothing ("none"), or a reply
Before(op) ==
    IF op.name \in ToolNames /\ ~SchemaAccepts(op)
    THEN Reply("invalid", TRUE, MsgInvalidArguments, 0)
    ELSE IF op.name = "mark_as_read" /\ ~op.given /\ ~Truthy(op.stream_id)
    THEN Reply("error", TRUE, MsgEither, 0)
    ELSE NoReply

\* reading a property of undefined inside the handler's try block
HandlerTypeError == Result("TypeError", "undefined is not an object", 0, "")

\* the handler after the client method has settled with res
HandlerReplyUncaught(op, res) ==
    IF op.name \notin ToolNames THEN NoReply
    ELSE IF IsError(res) THEN NoReply
    ELSE Reply("result", FALSE, res.value, 0)

HandlerReply(op, res) ==
    IF op.name \notin ToolNames THEN NoReply
    ELSE IF IsError(res) THEN handleToolError(res)
    ELSE CASE op.name \in {"get_unread_counts", "get_articles", "get_starred_articles"} ->
                \* counts.unreadcounts.filter, contents.items.length
                IF res.kind = "json" /\ res.value = JsonBody
                THEN Reply("result", FALSE, res.value, 0)
                ELSE handleToolError(HandlerTypeError)
           [] op.name = "mark_as_read" ->
                Reply("result", FALSE,
                      IF op.given THEN "Marked N items as read"
                      ELSE "Marked all items in stream as read",
                      IF op.given THEN Len(op.item_ids) ELSE 0)
           [] op.name = "mark_as_unread" ->
                Reply("result", FALSE, "Marked N items as unread", Len(op.item_ids))
           [] OTHER ->
                \* JSON.stringify(undefined) is undefined
                Reply("result", FALSE,
                      IF res.kind = "void" THEN Undefined ELSE res.value, 0)

\* ---------------------------------------------------------------- state
VARIABLES
    env,            \* process.platform, INOREADER_ACCESS_TOKEN, app credentials
    now,            \* Date.now()
    store,          \* the keychain entry of account "tokens"
    issued,         \* successful answers of the token endpoint so far
    client,         \* index.ts `client`: 0 is null, else the instance
    accessToken,    \* InoreaderClient.accessToken of each instance
    hasRetriedAuth, \* InoreaderClient.hasRetriedAuth of each instance
    call,           \* the tool invocations: position, locals and history
    cli,            \* the `auth login` / `auth logout` command, when one runs
    formatted       \* a stream item handed to formatArticle, and the article

vars ==
    <<env, now, store, issued, client, accessToken, hasRetriedAuth, call, cli,
      formatted>>

\* ------------------------------------------------------ formatArticle
\* item.summary and item.summary.content may be missing; content is a string,
\* here the sequence of its UTF-16 code units
StreamItem(hasSummary, hasContent, content) ==
    [hasSummary |-> hasSummary, hasContent |-> hasContent, content |-> content]
\* the article: whether it has the summary member, and the member
Article(hasSummary, summary) == [hasSummary |-> hasSummary, summary |-> summary]
NoFormatted ==
    [pc |-> "none", item |-> StreamItem(FALSE, FALSE, <<>>), article |-> Article(FALSE, <<>>)]

\* formatArticle, line 145: content.length > 500
SummaryLimit == 500
\* "..."
Ellipsis == <<46, 46, 46>>

\* content.slice(0, k)
Slice(content, k) == SubSeq(content, 1, IF Len(content) < k THEN Len(content) ELSE k)

\* formatArticle, lines 143-149
formatArticleWithoutLimit(item) ==
    IF item.hasSummary /\ item.hasContent /\ item.content /= <<>>
    THEN Article(TRUE, item.content \o Ellipsis)
    ELSE Article(FALSE, <<>>)

formatArticle(item) ==
    IF item.hasSummary /\ item.hasContent /\ item.content /= <<>>
    THEN Article(TRUE, IF Len(item.content) > SummaryLimit
                       THEN Slice(item.content, SummaryLimit) \o Ellipsis
                       ELSE item.content)
    ELSE Article(FALSE, <<>>)

\* ------------------------------------------------------ the auth command
\* a request to the callback listener: path and the query's code and error
\* (searchParams.get gives null, here undefined, for a missing parameter)
CallbackRequest(path, code, error) == [path |-> path, code |-> code, error |-> error]
NoRequest == CallbackRequest("", Undefined, Undefined)

\* cmd, pc: the sub-command and its position; listening, timer: Bun.serve's
\* socket is open, the setTimeout is pending; wait, value: the state of the
\* promise of startCallbackServer; elapsed: ms since the command started;
\* conns, served, last: open connections, requests handled, the latest one;
\* pair, fresh: the argument of the latest saveTokens and whether that save
\* completed; loaded, found: the result of the latest loadTokens and whether
\* its lookup command succeeded
NoCli ==
    [cmd |-> "none", pc |-> "none", listening |-> FALSE, timer |-> FALSE,
     wait |-> "none", value |-> "", elapsed |-> 0, conns |-> 0, served |-> 0,
     last |-> NoRequest, pair |-> NullTokens, fresh |-> FALSE,
     loaded |-> NullTokens, found |-> FALSE]

NewCall ==
    [pc |-> "idle", flow |-> "none", inst |-> 0,
     tokens |-> NullTokens, newTokens |-> NoTokenBody, data |-> Absent,
     result |-> NoResult, op |-> GetUserInfo, req |-> NoReq, reply |-> NoReply,
     log |-> <<>>, bearers |-> <<>>, refreshes |-> 0, tokenReqs |-> 0]

Platforms == {"darwin", "linux", "win32"}
Supported(platform) == platform \in {"darwin", "linux"}

\* what an earlier login or refresh can have left in the keychain
InitStores ==
    { Absent, Garbage,
      JSONstringify(TokenData("A0", "R0", Num(StartTime + HourMs))),
      JSONstringify(TokenData("A0", "R0", Num(StartTime + 60 * 1000))),
      JSONstringify(TokenData("A0", "R0", UndefinedNum)),
      JSONstringify(TokenData("A0", Undefined, Num(StartTime + 60 * 1000))),
      JSONstringify(TokenData("A0", "", Num(StartTime + HourMs))) }

Init ==
    /\ env \in [platform : Platforms, INOREADER_ACCESS_TOKEN : {"", "ENV"},
                credentials : BOOLEAN]
    /\ now = StartTime
    /\ store \in InitStores
    /\ (~Supported(env.platform) => store = Absent)
    /\ issued = 0
    /\ client = 0
    /\ accessToken = [i \in Calls |-> Undefined]
    /\ hasRetriedAuth = [i \in Calls |-> FALSE]
    /\ call = [c \in Calls |-> NewCall]
    /\ cli = NoCli
    /\ formatted = NoFormatted

\* ------------------------------------------------------- steps of a flow
\* request, lines 54-78: build the request from the instance's token and send it
Dispatch(rec, token) ==
    [rec EXCEPT !.pc = "fetch", !.bearers = Append(@, token),
                !.tokens = NullTokens, !.newTokens = NoTokenBody, !.data = Absent]

\* the invocation ends: request's result or error reaches the tool handler
FinishDroppingReplay(rec, res) ==
    [rec EXCEPT !.pc = "done",
                !.result = IF Len(rec.bearers) > 1 /\ res.kind \in {"json", "text"}
                           THEN Result("void", "", 0, "") ELSE res,
                !.reply = HandlerReply(rec.op, res),
                !.tokens = NullTokens, !.newTokens = NoTokenBody, !.data = Absent]

Finish(rec, res) ==
    [rec EXCEPT !.pc = "done", !.result = res,
                !.reply = HandlerReply(rec.op, res),
                !.tokens = NullTokens, !.newTokens = NoTokenBody, !.data = Absent]

\* the handler replies without calling getClient
Refuse(rec, reply) == [rec EXCEPT !.pc = "done", !.reply = reply]

\* the client method runs on the instance: it sends its request, or settles
\* without one
Run(rec, token) ==
    LET m == Method(rec.op)
    IN  IF m.act = "request"
        THEN Dispatch([rec EXCEPT !.req = m.req], token)
        ELSE Finish(rec, m.res)

\* loadTokens starts its lookup command
StartLoad(rec, f) == [rec EXCEPT !.pc = "load", !.flow = f]

\* createClient, lines 323-340, then getClient's assignment and the first request
Construct(c, token) ==
    /\ client' = c
    /\ accessToken' = [accessToken EXCEPT ![c] = token]
    /\ call' = [call EXCEPT ![c] = Run([@ EXCEPT !.inst = c], token)]

\* a tool handler runs: getClient, createClient, getValidAccessToken up to the
\* first awaited I/O
Invoke(c) ==
    /\ call[c].pc = "idle"
    /\ IF Before(call[c].op) /= NoReply
       THEN /\ call' = [call EXCEPT ![c] = Refuse(@, Before(call[c].op))]
            /\ UNCHANGED <<client, accessToken>>
       ELSE IF client /= 0
       THEN /\ call' = [call EXCEPT ![c] =
                          Run([@ EXCEPT !.inst = client], accessToken[client])]
            /\ UNCHANGED <<client, accessToken>>
       ELSE IF Truthy(env.INOREADER_ACCESS_TOKEN)
       THEN Construct(c, env.INOREADER_ACCESS_TOKEN)
       ELSE IF Supported(env.platform)
       THEN /\ call' = [call EXCEPT ![c] = StartLoad(@, "startup")]
            /\ UNCHANGED <<client, accessToken>>
       ELSE /\ call' = [call EXCEPT ![c] = Finish(@, StartupError(MsgNotAuthenticated))]
            /\ UNCHANGED <<client, accessToken>>
    /\ UNCHANGED <<formatted, cli, env, now, store, issued, hasRetriedAuth>>

\* what a flow's failed refresh ends in: a startup error of getValidAccessToken,
\* or tryRefreshToken's false, which request turns into an AuthenticationError
RefreshFailure(rec) ==
    IF rec.flow = "startup"
    THEN Finish(rec, StartupError(MsgRefreshFailed))
    ELSE Finish(rec, AuthenticationError(MsgExpired))

\* refreshAccessToken up to its fetch: getAuthConfig throws without credentials
StartRefresh(rec, t) ==
    IF ~env.credentials
    THEN RefreshFailure(rec)
    ELSE [rec EXCEPT !.pc = "token", !.tokens = t, !.tokenReqs = @ + 1]

\* the lookup command of loadTokens completes
Load(c) ==
    /\ call[c].pc = "load"
    /\ LET t == loadTokens(env.platform, store) IN
       IF call[c].flow = "startup"
       THEN IF t.isNull
            THEN /\ call' = [call EXCEPT ![c] =
                               Finish(@, StartupError(MsgNotAuthenticated))]
                 /\ UNCHANGED <<client, accessToken>>
            ELSE IF isExpired(t, now) /\ Truthy(t.refreshToken)
            THEN /\ call' = [call EXCEPT ![c] = StartRefresh(@, t)]
                 /\ UNCHANGED <<client, accessToken>>
            ELSE Construct(c, t.accessToken)
       ELSE /\ call' = [call EXCEPT ![c] =
                          IF LacksRefreshToken(t)
                          THEN RefreshFailure(@)
                          ELSE StartRefresh(@, t)]
            /\ UNCHANGED <<client, accessToken>>
    /\ UNCHANGED <<formatted, cli, env, now, store, issued, hasRetriedAuth>>

\* saveTokens up to its first command: macOSSet deletes first, linuxSet stores
StartSave(rec, body, t) ==
    [rec EXCEPT !.pc = IF env.platform = "darwin" THEN "delete" ELSE "store",
                !.newTokens = body,
                !.data = RefreshedData(body, rec.tokens, t)]

\* the token endpoint answers refreshAccessToken's fetch
TokenResponse(c) ==
    /\ call[c].pc = "token"
    /\ \/ /\ \E r \in TokenFailures :
                \* !response.ok, a rejected fetch and a rejected response.json() all throw
                call' = [call EXCEPT ![c] = RefreshFailure(@)]
          /\ UNCHANGED issued
       \/ /\ issued < MaxIssued
          /\ issued' = issued + 1
          /\ \E r \in TokenBodies(issued + 1) :
                call' = [call EXCEPT ![c] = StartSave(@, r, now)]
    /\ UNCHANGED <<formatted, cli, env, now, store, client, accessToken, hasRetriedAuth>>

\* after saveTokens: getValidAccessToken returns the new token to createClient;
\* tryRefreshToken adopts it and request sends the request again
Saved(c) ==
    IF call[c].flow = "startup"
    THEN /\ Construct(c, call[c].newTokens.access_token)
         /\ UNCHANGED hasRetriedAuth
    ELSE /\ accessToken' =
                [accessToken EXCEPT ![call[c].inst] = call[c].newTokens.access_token]
         /\ call' = [call EXCEPT ![c] = Dispatch(@, call[c].newTokens.access_token)]
         /\ UNCHANGED <<client, hasRetriedAuth>>

\* tryRefreshToken with the adoption moved before `await saveTokens`
SaveFailedAfterAdoption(c) ==
    /\ call' = [call EXCEPT ![c] = RefreshFailure(@)]
    /\ accessToken' =
           IF call[c].flow = "refresh"
           THEN [accessToken EXCEPT ![call[c].inst] = call[c].newTokens.access_token]
           ELSE accessToken
    /\ UNCHANGED <<client, hasRetriedAuth>>

\* saveTokens throws: getValidAccessToken's caller fails, tryRefreshToken
\* returns false at line 43 without reaching line 41
SaveFailed(c) ==
    /\ call' = [call EXCEPT ![c] = RefreshFailure(@)]
    /\ UNCHANGED <<client, accessToken, hasRetriedAuth>>

\* macOSSet, lines 980-984: delete-generic-password; its failure is ignored
KeychainDelete(c) ==
    /\ call[c].pc = "delete"
    /\ \/ store' = Absent
       \/ store' = store
    /\ call' = [call EXCEPT ![c] = [@ EXCEPT !.pc = "add"]]
    /\ UNCHANGED <<formatted, cli, env, now, issued, client, accessToken, hasRetriedAuth>>

\* macOSSet, line 986: add-generic-password; it fails when the entry exists
KeychainAdd(c) ==
    /\ call[c].pc = "add"
    /\ \/ /\ store = Absent
          /\ store' = call[c].data
          /\ Saved(c)
       \/ /\ store' = store
          /\ SaveFailed(c)
    /\ UNCHANGED <<formatted, cli, env, now, issued>>

\* linuxSet, line 1008: secret-tool store replaces the entry
SecretToolStore(c) ==
    /\ call[c].pc = "store"
    /\ \/ /\ store' = call[c].data
          /\ Saved(c)
       \/ /\ store' = store
          /\ SaveFailed(c)
    /\ UNCHANGED <<formatted, cli, env, now, issued>>

\* request, lines 78-127: the upstream API answers the fetch
Respond(c, resp) ==
    /\ call[c].pc = "fetch"
    /\   LET i == call[c].inst
             rec == [call[c] EXCEPT !.log = Append(@, resp)]
             how == Classify(resp, hasRetriedAuth[i])
         IN  CASE how = "refresh" ->
                    /\ hasRetriedAuth' = [hasRetriedAuth EXCEPT ![i] = TRUE]
                    /\ call' = [call EXCEPT ![c] =
                          LET r == [rec EXCEPT !.refreshes = @ + 1, !.flow = "refresh"] IN
                          IF Supported(env.platform)
                          THEN StartLoad(r, "refresh")
                          ELSE RefreshFailure(r)]
               [] how = "ok" ->
                    /\ hasRetriedAuth' = [hasRetriedAuth EXCEPT ![i] = FALSE]
                    /\ call' = [call EXCEPT ![c] = Finish(rec, Shape(resp))]
               [] OTHER ->
                    /\ hasRetriedAuth' = hasRetriedAuth
                    /\ call' = [call EXCEPT ![c] =
                                  Finish(rec, Thrown(resp, hasRetriedAuth[i]))]
    /\ UNCHANGED <<formatted, cli, env, now, store, issued, client, accessToken>>

Response(c) == \E resp \in ApiResponses : Respond(c, resp)

Next ==
    \/ \E c \in Calls : Invoke(c)
    \/ \E c \in Calls : Load(c)
    \/ \E c \in Calls : TokenResponse(c)
    \/ \E c \in Calls : KeychainDelete(c)
    \/ \E c \in Calls : KeychainAdd(c)
    \/ \E c \in Calls : SecretToolStore(c)
    \/ \E c \in Calls : Response(c)

Spec == Init /\ [][Next]_vars

\* ------------------------------------------------------------ properties
Done(c) == call[c].pc = "done"
Quiescent == \A c \in Calls : call[c].pc \in {"idle", "done"}
SaveSteps == {"delete", "add", "store"}
\* tryRefreshToken is running for the invocation
Refreshing(c) == call[c].flow = "refresh" /\ call[c].pc \in {"load", "token"} \cup SaveSteps
Last(q) == q[Len(q)]
\* the step is one of invocation c
StepOf(c) == call'[c] /= call[c]

\* C1: a call invokes the token refresh at most once and is dispatched at most
\* twice, and a 401 on its second attempt ends it with the Authentication error
C1_OneRefreshTwoDispatches ==
    \A c \in Calls :
        /\ call[c].refreshes <= 1
        /\ Len(call[c].bearers) <= 2
        /\ (Len(call[c].log) >= 2 /\ call[c].log[2].status = 401
                => Done(c) /\ call[c].result = AuthenticationError(MsgExpired))

\* C2: while another call on the same client is refreshing, a call whose first
\* attempt was answered 401 has had its own refresh attempt
C2_RetryAccountingPerCall ==
    \A c, d \in Calls :
        ( /\ c /= d
          /\ call[c].inst = call[d].inst
          /\ Refreshing(d)
          /\ Len(call[c].log) >= 1
          /\ call[c].log[1].status = 401 )
        => call[c].refreshes >= 1

\* C3: when no call is executing, the retry flag of every client is false
C3_FlagFalseWhenQuiescent ==
    Quiescent => \A i \in Calls : ~hasRetriedAuth[i]

\* C4: a call answered 401, refreshed and answered 2xx on the replay returns
\* what a call answered that 2xx on its first attempt returns
C4_RetryTransparent ==
    \A c, d \in Calls :
        ( /\ Done(c) /\ Done(d)
          /\ Len(call[c].log) = 2
          /\ call[c].log[1].status = 401
          /\ Ok(call[c].log[2])
          /\ call[d].log = <<call[c].log[2]>> )
        => call[c].result = call[d].result

C4_Witness ==
    \E c, d \in Calls :
        /\ Done(c) /\ Done(d)
        /\ Len(call[c].log) = 2
        /\ call[c].log[1].status = 401
        /\ call[c].log[2].status = 200
        /\ call[d].log = <<call[c].log[2]>>
        /\ call[c].refreshes = 1
        /\ call[c].result.kind = "json"

\* C5: a token answer without access_token or expires_in is a failed refresh:
\* the call that received it neither saves a pair nor sends its request again
C5_RefreshFailureEndsCall ==
    \A c \in Calls :
        ( /\ call[c].flow = "refresh"
          /\ call[c].newTokens.kind = "ok"
          /\ \/ call[c].newTokens.access_token = Undefined
             \/ call[c].newTokens.expires_in = UndefinedNum )
        => call[c].pc \notin SaveSteps \cup {"fetch"}

\* C6: at every point of a saveTokens run by a refresh, loadTokens returns a
\* pair, never absent
C6_AtomicReplace ==
    \A c \in Calls :
        (call[c].flow = "refresh" /\ call[c].pc \in SaveSteps)
        => ~loadTokens(env.platform, store).isNull

\* C7: the step that completes a refresh's save, at startup or after a 401,
\* stores the returned access token and the returned refresh token, or the
\* loaded refresh token when none was returned
C7_RefreshTokenCarriedForward ==
    [][\A c \in Calls :
        (call[c].pc \in {"add", "store"} /\ call'[c].pc = "fetch")
        => /\ store'.kind = "json"
           /\ store'.accessToken = call[c].newTokens.access_token
           /\ store'.refreshToken =
                IF call[c].newTokens.refresh_token \in {Undefined, ""}
                THEN call[c].tokens.refreshToken
                ELSE call[c].newTokens.refresh_token]_vars

C7_Witness ==
    \E c \in Calls :
        /\ call[c].pc = "fetch"
        /\ call[c].refreshes = 1
        /\ Len(call[c].bearers) = 2
        /\ store.kind = "json"
        /\ store.refreshToken = "R0"
        /\ store.accessToken = "A1"
        /\ Last(call[c].bearers) = "A1"

\* C8: a refresh that finds no stored pair, or a pair whose refresh token is
\* missing or empty, fails at once: no token request, no change of the store
C8_NoRefreshTokenNoRequest ==
    [][\A c \in Calls :
        ( \/ /\ call[c].pc = "fetch"
             /\ call'[c].refreshes = call[c].refreshes + 1
             /\ loadTokens(env.platform, store).isNull
             /\ ~Supported(env.platform)
          \/ /\ call[c].pc = "load" /\ call[c].flow = "refresh"
             /\ StepOf(c)
             /\ \/ store.kind /= "json"
                \/ store.refreshToken \in {Undefined, ""} )
        => /\ call'[c].pc = "done"
           /\ call'[c].result = AuthenticationError(MsgExpired)
           /\ call'[c].tokenReqs = call[c].tokenReqs
           /\ call'[c].bearers = call[c].bearers
           /\ store' = store
           /\ issued' = issued]_vars

C8_Witness ==
    \E c \in Calls :
        /\ Done(c)
        /\ call[c].refreshes = 1
        /\ call[c].tokenReqs = 0
        /\ call[c].result = AuthenticationError(MsgExpired)
        /\ env.credentials /\ Supported(env.platform)
        /\ store.kind = "json" /\ store.refreshToken = ""

\* C9: a call whose latest answer is 403 has ended with an Authentication
\* error whose message is not the expiry message, with no refresh and no
\* dispatch after that answer
C9_ForbiddenIsFinal ==
    \A c \in Calls :
        (Len(call[c].log) >= 1 /\ Last(call[c].log).status = 403)
        => /\ Done(c)
           /\ call[c].result.kind = "AuthenticationError"
           /\ call[c].result.msg /= MsgExpired
           /\ Len(call[c].bearers) = Len(call[c].log)
           /\ call[c].refreshes = Len(call[c].log) - 1

C9_Witness ==
    \E c \in Calls :
        /\ Done(c)
        /\ Len(call[c].log) = 2
        /\ Last(call[c].log).status = 403
        /\ call[c].result = AuthenticationError(MsgForbidden)

\* C10: a call whose latest answer is neither 2xx, 401 nor 403 has ended with
\* a Client error that is no Authentication error and carries the status,
\* with no refresh and no dispatch after that answer
C10_OtherStatusIsClientError ==
    \A c \in Calls :
        ( /\ Len(call[c].log) >= 1
          /\ Last(call[c].log) /= NetworkFailure
          /\ ~Ok(Last(call[c].log))
          /\ Last(call[c].log).status \notin {401, 403} )
        => /\ Done(c)
           /\ call[c].result.kind = "InoreaderClientError"
           /\ call[c].result.status = Last(call[c].log).status
           /\ Len(call[c].bearers) = Len(call[c].log)
           /\ call[c].refreshes = Len(call[c].log) - 1

C10_Witness ==
    \E c \in Calls :
        /\ Done(c)
        /\ Len(call[c].log) = 2
        /\ Last(call[c].log).status = 500
        /\ call[c].result.kind = "InoreaderClientError"
        /\ call[c].result.status = 500

\* ------------------------------------------------------ response shaping
\* 2xx answers of every status class, content type and body the code tells
\* apart; a 204 or 205 response carries no body
ShapeResponses ==
    { r \in [status : {200, 201, 204, 205},
             ctype : {"application/json", "application/json; charset=utf-8",
                      "text/plain", ""},
             body : {"", JsonBody, BadJsonBody, "OK"}] :
        r.status \in {204, 205} => r.body = "" }

\* a process started with the environment override: no keychain access
InitShape == Init /\ Truthy(env.INOREADER_ACCESS_TOKEN)

ShapeResponse(c) == \E resp \in ShapeResponses : Respond(c, resp)

NextShape ==
    \/ \E c \in Calls : Invoke(c)
    \/ \E c \in Calls : ShapeResponse(c)

SpecShape == InitShape /\ [][NextShape]_vars

\* C11: every 2xx response ends the call with exactly one of the three result
\* kinds and never with an error: status 204 or 205 or an empty body gives the
\* empty result whatever the content type is, otherwise a JSON content type
\* gives the decoded body, otherwise the result is the response text
C11_SuccessShapedByStatusFirst ==
    \A c \in Calls :
        Done(c) /\ call[c].log /= <<>> /\ Ok(Last(call[c].log)) =>
            LET r == Last(call[c].log)
                res == call[c].result
            IN  /\ res.kind \in {"void", "json", "text"}
                /\ IF r.status \in {204, 205} \/ r.body = ""
                   THEN res = Result("void", "", 0, "")
                   ELSE IF IncludesJson(r.ctype)
                   THEN res = Result("json", "", 0, r.body)
                   ELSE res = Result("text", "", 0, r.body)

\* ------------------------------------------- invocations with arguments
\* longest item id list
MaxItems == 2

ItemIdLists == { [k \in 1..n |-> "i" \o ToString(k)] : n \in 0..MaxItems }

\* counts around the bounds of the tool schema and of the client's clamp
ToolCounts == {UndefinedNum, Num(-1), Num(0), Num(1), Num(100), Num(101)}
ClientCounts ==
    {UndefinedNum, Num(-5), Num(0), Num(1), Num(1000), Num(1001), Num(5000)}

Ops ==
    {GetUserInfo, [GetUserInfo EXCEPT !.name = "get_unread_counts"]}
    \cup { [GetUserInfo EXCEPT !.name = "get_articles", !.count = n,
                               !.stream_id = s, !.unread_only = u] :
             n \in ToolCounts, s \in {Undefined, "feed/1"}, u \in BOOLEAN }
    \cup { [GetUserInfo EXCEPT !.name = "get_starred_articles", !.count = n] :
             n \in ToolCounts }
    \cup { [GetUserInfo EXCEPT !.name = "mark_as_unread", !.given = TRUE,
                               !.item_ids = ids] : ids \in ItemIdLists }
    \cup { [GetUserInfo EXCEPT !.name = "mark_as_read", !.given = g,
                               !.item_ids = ids, !.stream_id = s] :
             g \in BOOLEAN, ids \in ItemIdLists, s \in {Undefined, "feed/1"} }
    \cup { [GetUserInfo EXCEPT !.name = "getStreamContents", !.count = n,
                               !.stream_id = "feed/1"] : n \in ClientCounts }
    \cup { [GetUserInfo EXCEPT !.name = "editSubscription", !.title = t,
                               !.addToFolder = a, !.removeFromFolder = r] :
             t \in {Undefined, "", "T"}, a \in {Undefined, "", "F", "G"},
             r \in {Undefined, "F"} }

\* a logged-in or logged-out process on Linux; the first invocation is
\* get_user_info, the others take every tool and argument
InitOps ==
    /\ env \in [platform : {"linux"}, INOREADER_ACCESS_TOKEN : {""},
                credentials : {TRUE}]
    /\ now = StartTime
    /\ store \in {Absent, JSONstringify(TokenData("A0", "R0", Num(StartTime + HourMs)))}
    /\ issued = 0
    /\ client = 0
    /\ accessToken = [i \in Calls |-> Undefined]
    /\ hasRetriedAuth = [i \in Calls |-> FALSE]
    /\ cli = NoCli
    /\ formatted = NoFormatted
    /\ call \in { f \in [Calls -> { [NewCall EXCEPT !.op = o] : o \in Ops }] :
                    f[1].op = GetUserInfo }

NextOps ==
    \/ \E c \in Calls : Invoke(c)
    \/ \E c \in Calls : Load(c)
    \/ \E c \in Calls : TokenResponse(c)
    \/ \E c \in Calls : SecretToolStore(c)
    \/ \E c \in Calls : Response(c)

SpecOps == InitOps /\ [][NextOps]_vars

\* editSubscription's two refused argument combinations
NoEditOption(op) ==
    ~Truthy(op.title) /\ ~Truthy(op.addToFolder) /\ ~Truthy(op.removeFromFolder)
SameFolder(op) == Truthy(op.addToFolder) /\ op.addToFolder = op.removeFromFolder
RefusedEdit(op) == op.name = "editSubscription" /\ (NoEditOption(op) \/ SameFolder(op))

\* C12: editSubscription with no title, folder to add or folder to remove, or
\* with the same folder to add and to remove, never sends a request; once it
\* is called on the client it ends with a Client error, and the step in which
\* it runs changes neither the retry flag nor, on a client that already
\* exists, the access token or the keychain entry
C12_EditRefusedLocally ==
    [][ \A c \in Calls :
          StepOf(c) /\ RefusedEdit(call[c].op) =>
            /\ call'[c].bearers = <<>> /\ call'[c].log = <<>>
            /\ call'[c].req = NoReq
            /\ hasRetriedAuth' = hasRetriedAuth
            /\ (call'[c].inst /= 0 =>
                    /\ call'[c].pc = "done"
                    /\ call'[c].result =
                         ValidationError(IF NoEditOption(call[c].op)
                                         THEN MsgNoOption ELSE MsgSameFolder))
            /\ (call[c].pc = "idle" /\ client /= 0 =>
                    /\ call'[c].inst = client
                    /\ UNCHANGED <<client, accessToken, store>>) ]_vars

\* an edit with the same folder twice was refused on a client that another
\* invocation had built and whose retry flag is set
C12_Witness ==
    \E c \in Calls :
        /\ RefusedEdit(call[c].op) /\ SameFolder(call[c].op)
        /\ Done(c) /\ call[c].inst \notin {0, c}
        /\ call[c].result = ValidationError(MsgSameFolder)
        /\ hasRetriedAuth[call[c].inst]

\* the request markAsUnread builds for a non-empty list: POST /edit-tag whose
\* body names the read state once and then one item-id field per id, in order
UnreadRequest(item_ids) ==
    Req("POST", "/edit-tag", UndefinedNum, Undefined, Undefined,
        << <<"r", ReadState>> >> \o [k \in 1..Len(item_ids) |-> <<"i", item_ids[k]>>])

\* C13: mark_as_unread with an empty id list sends no request and, once the
\* client method has run, the tool replies success with 0 items; with a
\* non-empty list the call is dispatched once, plus at most one replay, and
\* what it sends is POST /edit-tag with one item-id field per id
C13_MarkUnread ==
    \A c \in Calls :
        call[c].op.name = "mark_as_unread" =>
            IF call[c].op.item_ids = <<>>
            THEN /\ call[c].bearers = <<>> /\ call[c].log = <<>>
                 /\ call[c].req = NoReq
                 /\ (Done(c) /\ call[c].inst /= 0 =>
                        call[c].reply =
                            Reply("result", FALSE, "Marked N items as unread", 0))
            ELSE /\ Len(call[c].bearers) <= 2
                 /\ (call[c].inst /= 0 =>
                        /\ Len(call[c].bearers) >= 1
                        /\ call[c].req = UnreadRequest(call[c].op.item_ids))

\* the same without the bound on replays
MarkUnreadAnyReplays ==
    \A c \in Calls :
        call[c].op.name = "mark_as_unread" =>
            IF call[c].op.item_ids = <<>>
            THEN /\ call[c].bearers = <<>> /\ call[c].log = <<>>
                 /\ call[c].req = NoReq
                 /\ (Done(c) /\ call[c].inst /= 0 =>
                        call[c].reply =
                            Reply("result", FALSE, "Marked N items as unread", 0))
            ELSE (call[c].inst /= 0 =>
                        /\ Len(call[c].bearers) >= 1
                        /\ call[c].req = UnreadRequest(call[c].op.item_ids))

\* C14: whatever count getStreamContents is given, the page size n of the
\* request it sends lies in 1..1000: 20 when count is omitted, 1000 when count
\* exceeds 1000, and count when count is in 1..1000
C14_PageSizeWithinBounds ==
    \A c \in Calls :
        call[c].op.name = "getStreamContents" /\ call[c].req /= NoReq =>
            LET count == call[c].op.count
                n == call[c].req.n
            IN  /\ n.t = "num" /\ n.v >= 1 /\ n.v <= 1000
                /\ (count.t = "undefined" => n.v = 20)
                /\ (count.t = "num" /\ count.v > 1000 => n.v = 1000)
                /\ (count.t = "num" /\ count.v >= 1 /\ count.v <= 1000 => n.v = count.v)

StreamTools == {"get_articles", "get_starred_articles"}
OutOfRange(count) == count.t = "num" /\ (count.v <= 0 \/ count.v > 100)

\* C15: a get_articles or get_starred_articles invocation whose count is 0,
\* negative or above 100 is refused before getClient and any client method run
\* and before any request is sent, and every request of these tools carries a
\* page size n in 1..100
C15_CountValidatedBeforeClient ==
    \A c \in Calls :
        call[c].op.name \in StreamTools =>
            /\ (OutOfRange(call[c].op.count) =>
                    /\ call[c].pc \in {"idle", "done"}
                    /\ call[c].inst = 0
                    /\ call[c].req = NoReq
                    /\ call[c].bearers = <<>> /\ call[c].log = <<>>
                    /\ call[c].tokenReqs = 0
                    /\ (Done(c) => call[c].reply.isError /\ call[c].result = NoResult))
            /\ (call[c].req /= NoReq =>
                    /\ call[c].req.n.t = "num"
                    /\ call[c].req.n.v >= 1 /\ call[c].req.n.v <= 100)

\* a get_articles invocation with count 0 was refused while a client existed
C15_Witness ==
    \E c \in Calls :
        /\ call[c].op.name = "get_articles" /\ call[c].op.count = Num(0)
        /\ Done(c) /\ call[c].reply.isError
        /\ client /= 0

\* C16: a tool invocation replies exactly once, when it ends, and nothing of
\* it changes afterwards; the reply is a result payload without the error
\* flag or an error payload with it; whenever getClient or the client method
\* failed, or the result lacks what the handler reads from it, the reply is
\* the error payload carrying the failure's message
C16_OneReplyResultOrError ==
    [][ \A c \in Calls :
          call[c].op.name \in ToolNames =>
            /\ (call[c].reply /= NoReply => call'[c] = call[c])
            /\ (call'[c].pc = "done" <=> call'[c].reply /= NoReply)
            /\ (call'[c].pc = "done" =>
                  LET r == call'[c].reply
                      res == call'[c].result
                  IN  /\ r.kind \in {"result", "error", "invalid"}
                      /\ (r.kind = "result" => ~r.isError /\ res.kind \in {"json", "void", "text"})
                      /\ (r.kind /= "result" => r.isError)
                      /\ (IsError(res) => r = Reply("error", TRUE, res.msg, 0))
                      /\ (call'[c].op.name = "get_unread_counts" /\ res.kind \in {"void", "text"}
                            => r = Reply("error", TRUE, HandlerTypeError.msg, 0))) ]_vars

\* get_unread_counts received a 2xx text answer and replied with an error payload
C16_Witness ==
    \E c \in Calls :
        /\ call[c].op.name = "get_unread_counts"
        /\ Done(c) /\ call[c].result.kind = "text"
        /\ call[c].reply.kind = "error" /\ call[c].reply.isError

\* ------------------------------------------------------- Token Provider
\* the keychain holds a token pair the process can read
StoredPair == Supported(env.platform) /\ store.kind = "json"
\* the stored expiry is less than 5 minutes ahead and a refresh token is stored
ExpiresSoon ==
    /\ store.expiresAt.t = "num"
    /\ store.expiresAt.v < now + 5 * 60 * 1000
    /\ Truthy(store.refreshToken)
\* invocation c is inside getValidAccessToken
Starting(c) ==
    call[c].flow = "startup" /\ call[c].pc \in {"load", "token"} \cup SaveSteps
\* createClient returned to invocation c with this token
Returned(c, token) ==
    /\ client' = c /\ call'[c].inst = c
    /\ accessToken'[c] = token
    /\ call'[c].bearers = <<token>>
NoClientBuilt(c) == client' = client /\ call'[c].inst = 0 /\ accessToken' = accessToken

\* C17: getValidAccessToken returns the environment override without reading
\* the keychain or calling the token endpoint; without an override an absent
\* pair is the "not authenticated" error; a pair that expires in less than 5
\* minutes and has a refresh token is refreshed, and the new pair is in the
\* keychain when its access token is returned; a refresh that fails ends in
\* the startup error and never returns the stored access token; any other
\* pair's access token is returned as stored
C17_TokenProviderOrder ==
    [][ \A c \in Calls :
          StepOf(c) =>
            /\ ( /\ call[c].pc = "idle" /\ client = 0
                 /\ Before(call[c].op) = NoReply
                 /\ Truthy(env.INOREADER_ACCESS_TOKEN)
                 => /\ Returned(c, env.INOREADER_ACCESS_TOKEN)
                    /\ call'[c].tokenReqs = 0
                    /\ store' = store )
            /\ ( call[c].pc = "load" /\ call[c].flow = "startup" =>
                 IF ~StoredPair
                 THEN /\ call'[c].pc = "done"
                      /\ call'[c].result = StartupError(MsgNotAuthenticated)
                      /\ NoClientBuilt(c)
                 ELSE IF ExpiresSoon
                 THEN /\ NoClientBuilt(c)
                      /\ \/ call'[c].pc = "token" /\ call'[c].tokenReqs = 1
                         \/ /\ call'[c].pc = "done"
                            /\ call'[c].result = StartupError(MsgRefreshFailed)
                 ELSE Returned(c, store.accessToken) /\ call'[c].tokenReqs = 0 )
            /\ ( Starting(c) /\ call[c].pc /= "load" =>
                 \/ call'[c].pc \in SaveSteps /\ NoClientBuilt(c)
                 \/ /\ call'[c].pc = "done"
                    /\ call'[c].result = StartupError(MsgRefreshFailed)
                    /\ NoClientBuilt(c)
                 \/ /\ Returned(c, call[c].newTokens.access_token)
                    /\ store' = call[c].data
                    /\ store'.accessToken = call[c].newTokens.access_token ) ]_vars

\* an invocation's first request carries the token of a startup refresh, and
\* the keychain holds the pair of that refresh
C17_Witness ==
    \E c \in Calls :
        /\ call[c].inst = c /\ call[c].flow = "startup" /\ call[c].pc = "fetch"
        /\ call[c].tokenReqs = 1
        /\ call[c].bearers = <<"A1">>
        /\ store.accessToken = "A1"

\* C18: createClient completes for at most one invocation of the process, and
\* all invocations that have a client instance have the same one
C18_OneClientPerProcess ==
    /\ Cardinality({c \in Calls : call[c].inst = c}) <= 1
    /\ \A c, e \in Calls :
          call[c].inst /= 0 /\ call[e].inst /= 0 => call[c].inst = call[e].inst

\* ------------------------------------------------- the callback listener
\* the window of the interactive authorization
AuthTimeoutMs == 5 * 60 * 1000
\* step of the clock
TickMs == 60 * 1000
\* connections a browser or another local program keeps open
MaxConns == 2
\* requests the listener handles
MaxRequests == 3

CallbackRequests ==
    { CallbackRequest(p, c, e) :
        p \in {"/callback", "/favicon.ico"},
        c \in {Undefined, "CODE"},
        e \in {Undefined, "", "access_denied"} }

serverVars ==
    <<env, now, store, issued, client, accessToken, hasRetriedAuth, call, formatted>>

\* resolve / reject: a promise that is settled ignores further calls
Settle(s, outcome, value) ==
    IF s.wait = "pending" THEN [s EXCEPT !.wait = outcome, !.value = value] ELSE s

\* startCallbackServer, lines 807-838: the fetch handler of Bun.serve
fetchAnyPath(s, req) ==
    LET stopped == [s EXCEPT !.served = @ + 1, !.last = req,
                             !.timer = FALSE, !.listening = FALSE]
    IN  IF Truthy(req.error) THEN Settle(stopped, "error", req.error)
        ELSE IF Truthy(req.code) THEN Settle(stopped, "code", req.code)
        ELSE Settle(stopped, "nocode", "")

fetch(s, req) ==
    LET served == [s EXCEPT !.served = @ + 1, !.last = req]
        stopped == [served EXCEPT !.timer = FALSE, !.listening = FALSE]
    IN  IF req.path = "/callback"
        THEN IF Truthy(req.error) THEN Settle(stopped, "error", req.error)
             ELSE IF Truthy(req.code) THEN Settle(stopped, "code", req.code)
             ELSE Settle(stopped, "nocode", "")
        ELSE served

\* `auth login` on a platform with a keychain and with app credentials
InitCallback ==
    /\ env \in [platform : {"darwin", "linux"}, INOREADER_ACCESS_TOKEN : {""},
                credentials : {TRUE}]
    /\ now = StartTime
    /\ store \in InitStores
    /\ issued = 0
    /\ client = 0
    /\ accessToken = [i \in Calls |-> Undefined]
    /\ hasRetriedAuth = [i \in Calls |-> FALSE]
    /\ call = [c \in Calls |-> NewCall]
    /\ cli = [NoCli EXCEPT !.cmd = "login", !.pc = "start"]
    /\ formatted = NoFormatted

\* the promise executor: setTimeout, then Bun.serve, which throws when the
\* port is taken; the exception rejects the promise and login ends the process
startCallbackServer ==
    /\ cli.pc = "start"
    /\ \/ cli' = [cli EXCEPT !.pc = "waiting", !.timer = TRUE, !.listening = TRUE,
                             !.wait = "pending"]
       \/ cli' = [cli EXCEPT !.pc = "exited", !.wait = "listenfailed"]
    /\ UNCHANGED serverVars

\* a connection is accepted while the socket listens
Connect ==
    /\ cli.listening /\ cli.conns < MaxConns
    /\ cli' = [cli EXCEPT !.conns = @ + 1]
    /\ UNCHANGED serverVars

\* stop() closes the listening socket and lets open connections go on
CallbackRequestArrives ==
    /\ cli.conns > 0 /\ cli.served < MaxRequests
    /\ \E req \in CallbackRequests : cli' = fetch(cli, req)
    /\ UNCHANGED serverVars

Close ==
    /\ cli.conns > 0
    /\ cli' = [cli EXCEPT !.conns = @ - 1]
    /\ UNCHANGED serverVars

\* the setTimeout callback, lines 798-801
Timeout ==
    /\ cli.timer /\ cli.elapsed >= AuthTimeoutMs
    /\ cli' = Settle([cli EXCEPT !.timer = FALSE, !.listening = FALSE], "timeout", "")
    /\ UNCHANGED serverVars

\* time passes; a timer that is due runs before the clock moves on
Tick ==
    /\ cli.pc = "waiting"
    /\ cli.elapsed < AuthTimeoutMs + TickMs
    /\ ~(cli.timer /\ cli.elapsed >= AuthTimeoutMs)
    /\ cli' = [cli EXCEPT !.elapsed = @ + TickMs]
    /\ UNCHANGED serverVars

NextCallback ==
    \/ startCallbackServer
    \/ Connect
    \/ CallbackRequestArrives
    \/ Close
    \/ Timeout
    \/ Tick

SpecCallback == InitCallback /\ [][NextCallback]_vars

Settled(s) == s.wait \notin {"none", "pending"}
\* the step handles a request
Handles == cli'.served = cli.served + 1

\* C19: the wait of the authorization flow settles once and for all: with the
\* code, the authorization error or "no code" of the first /callback request,
\* or with the timeout, which comes at 5 minutes and no later; whenever it is
\* settled the listener no longer listens; a request to any other path leaves
\* the wait, the listener and the timer as they are
C19_CallbackWaitSettlesOnce ==
    [][ /\ (Settled(cli) => cli'.wait = cli.wait /\ cli'.value = cli.value)
        /\ (Settled(cli') => ~cli'.listening)
        /\ (cli'.wait = "timeout" => cli'.elapsed >= AuthTimeoutMs)
        /\ (cli'.elapsed > AuthTimeoutMs => Settled(cli'))
        /\ (Handles /\ cli'.last.path /= "/callback" =>
                /\ cli'.wait = cli.wait
                /\ cli'.listening = cli.listening
                /\ cli'.timer = cli.timer)
        /\ (Handles /\ cli'.last.path = "/callback" /\ cli.wait = "pending" =>
                /\ cli'.wait = IF Truthy(cli'.last.error) THEN "error"
                               ELSE IF Truthy(cli'.last.code) THEN "code"
                               ELSE "nocode"
                /\ ~cli'.timer) ]_vars

\* the listener answered a request to another path, went on listening, and
\* the wait ended with the timeout
C19_Witness ==
    /\ cli.wait = "timeout" /\ ~cli.listening
    /\ cli.served >= 1 /\ cli.last.path /= "/callback"

\* ------------------------------------------------------------ auth logout
\* macOSDelete, linuxDelete: the delete command removes the entry, or fails
\* and leaves it; the failure is caught and ignored
macOSDelete(entry) == {Absent, entry}
linuxDelete(entry) == {Absent, entry}

\* `auth logout` on any platform, in any state of the keychain, next to a
\* server process without the environment override
InitLogout ==
    /\ env \in [platform : Platforms, INOREADER_ACCESS_TOKEN : {""},
                credentials : BOOLEAN]
    /\ now = StartTime
    /\ store \in InitStores
    /\ (~Supported(env.platform) => store = Absent)
    /\ issued = 0
    /\ client = 0
    /\ accessToken = [i \in Calls |-> Undefined]
    /\ hasRetriedAuth = [i \in Calls |-> FALSE]
    /\ call = [c \in Calls |-> NewCall]
    /\ cli = [NoCli EXCEPT !.cmd = "logout", !.pc = "delete"]
    /\ formatted = NoFormatted

\* deleteTokens: nothing happens on a platform without a keychain
deleteTokens ==
    /\ cli.cmd = "logout" /\ cli.pc = "delete"
    /\ store' \in (IF env.platform = "darwin" THEN macOSDelete(store)
                   ELSE IF env.platform = "linux" THEN linuxDelete(store)
                   ELSE {store})
    /\ cli' = [cli EXCEPT !.pc = "report"]
    /\ UNCHANGED <<env, now, issued, client, accessToken, hasRetriedAuth, call,
                   formatted>>

\* logout, line 885: "Logged out. Tokens removed from keychain."
logout ==
    /\ cli.cmd = "logout" /\ cli.pc = "report"
    /\ cli' = [cli EXCEPT !.pc = "loggedout"]
    /\ UNCHANGED serverVars

NextLogout ==
    \/ deleteTokens
    \/ logout
    \/ \E c \in Calls : Invoke(c)
    \/ \E c \in Calls : Load(c)

SpecLogout == InitLogout /\ [][NextLogout]_vars

\* C20: once logout has reported success the keychain holds no token pair: a
\* load gives null, and an invocation whose getValidAccessToken loads after
\* that ends with the "not authenticated" error
C20_LogoutEmptiesStore ==
    [][ /\ (cli'.pc = "loggedout" => loadTokens(env.platform, store').isNull)
        /\ \A c \in Calls :
              cli.pc = "loggedout" /\ StepOf(c) /\ call[c].pc = "load" =>
                  call'[c].result = StartupError(MsgNotAuthenticated) ]_vars

\* ------------------------------------------------- the client's own state
\* the step belongs to a request of invocation c on a client that exists
RequestStep(c) ==
    /\ StepOf(c)
    /\ call[c].flow /= "startup"
    /\ (call[c].pc = "idle" => client /= 0)
\* the step completes the save of a 401-triggered refresh of invocation c:
\* the new pair is in the keychain and its access token is the client's
RefreshCompletes(c) ==
    /\ Refreshing(c)
    /\ \E k \in 1..Len(call[c].log) : call[c].log[k].status = 401
    /\ store' = call[c].data
    /\ accessToken' =
         [accessToken EXCEPT ![call[c].inst] = call[c].newTokens.access_token]

\* the step is the delete command with which macOSSet begins the save
SaveBegins(c) ==
    /\ Refreshing(c) /\ call[c].pc = "delete"
    /\ store' = Absent /\ accessToken' = accessToken
\* the 401-triggered refresh of invocation c, which had loaded a pair, fails
RefreshFails(c) ==
    /\ Refreshing(c) /\ call[c].pc /= "load"
    /\ call'[c].pc = "done"

\* C21: a step of a client request changes the client's access token or the
\* keychain entry only as part of the save of a 401-triggered refresh, and a
\* refresh that fails leaves a token pair in the keychain
C21_OnlySuccessfulRefreshChanges ==
    [][ \A c \in Calls :
          RequestStep(c) =>
              /\ \/ store' = store /\ accessToken' = accessToken
                 \/ RefreshCompletes(c)
                 \/ SaveBegins(c)
              /\ (RefreshFails(c) => store'.kind /= "absent") ]_vars

\* the same without the clause on the refresh that fails
OnlyRefreshSavesChange ==
    [][ \A c \in Calls :
          RequestStep(c) =>
              \/ store' = store /\ accessToken' = accessToken
              \/ RefreshCompletes(c)
              \/ SaveBegins(c) ]_vars

\* --------------------------------------------------- formatting an article
\* longest summary
MaxContentLength == 510

\* a summary of n code units; p varies what they are
Content(n, p) == [k \in 1..n |-> 97 + ((k + p * (k \div 7)) % 26)]

StreamItems ==
    { StreamItem(FALSE, FALSE, <<>>), StreamItem(TRUE, FALSE, <<>>) }
    \cup { StreamItem(TRUE, TRUE, Content(n, p)) : n \in 0..MaxContentLength, p \in 0..1 }

\* a get_articles handler about to format one item of the stream it received
InitFormat ==
    /\ env = [platform |-> "linux", INOREADER_ACCESS_TOKEN |-> "ENV", credentials |-> TRUE]
    /\ now = StartTime
    /\ store = Absent
    /\ issued = 0
    /\ client = 0
    /\ accessToken = [i \in Calls |-> Undefined]
    /\ hasRetriedAuth = [i \in Calls |-> FALSE]
    /\ call = [c \in Calls |-> NewCall]
    /\ cli = NoCli
    /\ formatted \in { [NoFormatted EXCEPT !.pc = "item", !.item = i] : i \in StreamItems }

\* contents.items.map(formatArticle), one item
FormatArticle ==
    /\ formatted.pc = "item"
    /\ formatted' = [formatted EXCEPT !.pc = "article", !.article = formatArticle(formatted.item)]
    /\ UNCHANGED <<env, now, store, issued, client, accessToken, hasRetriedAuth, call, cli>>

NextFormat == FormatArticle

SpecFormat == InitFormat /\ [][NextFormat]_vars

\* C22: the summary of a formatted article has at most 503 code units: a
\* summary longer than 500 becomes its first 500 code units followed by "...",
\* a summary of 1 to 500 is kept as it is, and an item without summary, without
\* content or with empty content gives an article without the summary member
C22_SummaryTruncated ==
    formatted.pc = "article" =>
        LET item == formatted.item
            out == formatted.article
            n == Len(item.content)
        IN  /\ Len(out.summary) <= 503
            /\ IF ~item.hasSummary \/ ~item.hasContent \/ n = 0
               THEN ~out.hasSummary
               ELSE /\ out.hasSummary
                    /\ IF n > 500
                       THEN /\ Len(out.summary) = 503
                            /\ \A k \in 1..500 : out.summary[k] = item.content[k]
                            /\ \A k \in 501..503 : out.summary[k] = 46
                       ELSE out.summary = item.content

\* a summary of 501 code units was cut to 500 and the marker
C22_Witness ==
    /\ formatted.pc = "article"
    /\ Len(formatted.item.content) = 501
    /\ Len(formatted.article.summary) = 503

Replayed(c) == call[c].refreshes >= 1 /\ Len(call[c].bearers) >= 2

\* C24: when no invocation is under way and some 401-triggered refresh has
\* succeeded, the access token of the client is the access token of the pair
\* in the keychain
C24_SessionMatchesStore ==
    Quiescent /\ client /= 0 /\ (\E c \in Calls : Replayed(c)) =>
        store.kind = "json" /\ accessToken[client] = store.accessToken

\* ------------------------------------------------- persist, then adopt
\* the step of invocation c in which saveTokens completes
SaveCompletes(c) ==
    /\ call[c].pc \in {"add", "store"}
    /\ store' = call[c].data
    /\ store'.kind = "json"

\* C25: in a 401-triggered refresh the access token of the client changes
\* only in the step in which saveTokens has completed, and then to the token
\* of the token response; a step that ends the refresh in failure (the token
\* call or the save failed) leaves every access token as it was
C25_PersistBeforeAdopt ==
    [][ \A c \in Calls : Refreshing(c) /\ StepOf(c) =>
          /\ accessToken' /= accessToken =>
                /\ SaveCompletes(c)
                /\ accessToken' = [accessToken EXCEPT ![call[c].inst] =
                                      call[c].newTokens.access_token]
          /\ call'[c].pc = "done" => accessToken' = accessToken ]_vars

\* one invocation was replayed with the token its refresh saved and adopted,
\* and the refresh of the other failed after its token request and left that
\* token in place
C25_Witness ==
    \E c, e \in Calls :
        /\ Replayed(c) /\ Done(c)
        /\ Done(e) /\ e /= c /\ call[e].inst = call[c].inst
        /\ call[e].refreshes = 1 /\ call[e].tokenReqs = 1 /\ Len(call[e].bearers) = 1
        /\ store.kind = "json"
        /\ Last(call[c].bearers) = store.accessToken
        /\ accessToken[call[c].inst] = store.accessToken
        /\ call[c].bearers[1] /= store.accessToken

\* ------------------------------------------------------ the bearer token
\* invocation c sends a request in this step
Dispatches(c) == Len(call'[c].bearers) = Len(call[c].bearers) + 1

\* C26: a request carries the access token its client holds when it is sent;
\* the replay after a refresh carries the token the refresh adopted, which is
\* not the token that was rejected, and repeats the request of the first
\* attempt (method, endpoint, query parameters, body)
C26_BearerIsSessionToken ==
    [][ \A c \in Calls : Dispatches(c) =>
          /\ Last(call'[c].bearers) = accessToken'[call'[c].inst]
          /\ Len(call[c].bearers) >= 1 =>
                /\ Last(call'[c].bearers) = call[c].newTokens.access_token
                /\ Last(call'[c].bearers) /= Last(call[c].bearers)
                /\ call'[c].req = call[c].req
                /\ call'[c].req /= NoReq ]_vars

\* the same without the comparison with the rejected token
BearerIsSessionTokenOrReplayed ==
    [][ \A c \in Calls : Dispatches(c) =>
          /\ Last(call'[c].bearers) = accessToken'[call'[c].inst]
          /\ Len(call[c].bearers) >= 1 =>
                /\ Last(call'[c].bearers) = call[c].newTokens.access_token
                /\ call'[c].req = call[c].req
                /\ call'[c].req /= NoReq ]_vars

\* ------------------------------------------------------------- mark read
MarkRead(c) == call[c].op.name = "mark_as_read"
Sent(c) == Len(call[c].bearers) >= 1
IdsGiven(op) == op.given /\ Len(op.item_ids) > 0
Succeeded(c) == Done(c) /\ call[c].reply.kind = "result"

\* the request of a mark read invocation follows its arguments: a non-empty
\* id list goes to /edit-tag with one "i" field per id, whatever the stream
\* is, and /mark-all-as-read is sent only without such a list
MarkReadRouted ==
    \A c \in Calls : MarkRead(c) /\ Sent(c) =>
        LET op == call[c].op  req == call[c].req IN
        /\ req.method = "POST"
        /\ IdsGiven(op) =>
              /\ req.endpoint = "/edit-tag"
              /\ req.body = << <<"a", ReadState>> >> \o ItemIdFields(op.item_ids)
        /\ req.endpoint = "/mark-all-as-read" =>
              ~IdsGiven(op) /\ req.body = << <<"s", op.stream_id>> >>

\* C27: mark read sends at most one request, routed by its arguments, and
\* the success message of the mark_as_read tool describes that request: "N
\* items" only for an /edit-tag request with N ids, "all items" only for a
\* /mark-all-as-read request, and no success without a request
C27_MarkReadMessageMatchesRequest ==
    /\ MarkReadRouted
    /\ \A c \in Calls : MarkRead(c) /\ Succeeded(c) =>
          /\ Sent(c)
          /\ call[c].reply.text = "Marked N items as read" =>
                /\ call[c].req.endpoint = "/edit-tag"
                /\ Len(call[c].req.body) = call[c].reply.items + 1
          /\ call[c].reply.text = "Marked all items in stream as read" =>
                call[c].req.endpoint = "/mark-all-as-read"

\* ------------------------------------------------ the keychain round trip
\* what login and the refreshes hand to saveTokens: members of a token
\* response as they came, and Date.now() + expires_in * 1000
Pairs ==
    { TokenData(a, r, e) : a \in {"A1", Undefined}, r \in {"R1", "", Undefined},
                           e \in {Num(StartTime + HourMs), Num(0), NaN} }

StoreEntries == InitStores \cup {JsonValue}

\* a process that saves and loads, on any platform and keychain entry
InitStore ==
    /\ env \in [platform : Platforms, INOREADER_ACCESS_TOKEN : {""},
                credentials : {TRUE}]
    /\ now = StartTime
    /\ store \in StoreEntries
    /\ (~Supported(env.platform) => store = Absent)
    /\ issued = 0
    /\ client = 0
    /\ accessToken = [i \in Calls |-> Undefined]
    /\ hasRetriedAuth = [i \in Calls |-> FALSE]
    /\ call = [c \in Calls |-> NewCall]
    /\ cli = [NoCli EXCEPT !.cmd = "store", !.pc = "idle"]
    /\ formatted = NoFormatted

Resting == {"idle", "saved", "failed", "loaded"}

\* saveTokens up to its first command; it throws on an unsupported platform
saveTokens ==
    /\ cli.cmd = "store" /\ cli.pc \in Resting
    /\ \E p \in Pairs :
          cli' = [cli EXCEPT !.pair = p, !.fresh = FALSE,
                             !.pc = IF env.platform = "darwin" THEN "delete"
                                    ELSE IF env.platform = "linux" THEN "store"
                                    ELSE "failed"]
    /\ UNCHANGED serverVars

\* macOSSet: delete-generic-password, its failure ignored
macOSSetDelete ==
    /\ cli.cmd = "store" /\ cli.pc = "delete"
    /\ store' \in macOSDelete(store)
    /\ cli' = [cli EXCEPT !.pc = "add"]
    /\ UNCHANGED <<env, now, issued, client, accessToken, hasRetriedAuth, call,
                   formatted>>

\* macOSSet: add-generic-password, which fails when the entry exists
macOSSetAdd ==
    /\ cli.cmd = "store" /\ cli.pc = "add"
    /\ \/ /\ store = Absent
          /\ store' = JSONstringify(cli.pair)
          /\ cli' = [cli EXCEPT !.pc = "saved", !.fresh = TRUE]
       \/ /\ store' = store
          /\ cli' = [cli EXCEPT !.pc = "failed"]
    /\ UNCHANGED <<env, now, issued, client, accessToken, hasRetriedAuth, call,
                   formatted>>

\* linuxSet: secret-tool store replaces the entry
linuxSet ==
    /\ cli.cmd = "store" /\ cli.pc = "store"
    /\ \/ /\ store' = JSONstringify(cli.pair)
          /\ cli' = [cli EXCEPT !.pc = "saved", !.fresh = TRUE]
       \/ /\ store' = store
          /\ cli' = [cli EXCEPT !.pc = "failed"]
    /\ UNCHANGED <<env, now, issued, client, accessToken, hasRetriedAuth, call,
                   formatted>>

\* loadTokens: macOSGet and linuxGet turn a failed lookup command into null
LoadTokens ==
    /\ cli.cmd = "store" /\ cli.pc \in Resting
    /\ \/ cli' = [cli EXCEPT !.pc = "loaded", !.found = TRUE,
                             !.loaded = loadTokens(env.platform, store)]
       \/ /\ Supported(env.platform)
          /\ cli' = [cli EXCEPT !.pc = "loaded", !.found = FALSE,
                                !.loaded = NullTokens]
    /\ UNCHANGED serverVars

NextStore ==
    \/ saveTokens
    \/ macOSSetDelete
    \/ macOSSetAdd
    \/ linuxSet
    \/ LoadTokens

SpecStore == InitStore /\ [][NextStore]_vars

SamePair(t, p) ==
    /\ ~t.isNull
    /\ t.accessToken = p.accessToken
    /\ t.refreshToken = p.refreshToken
    /\ t.expiresAt = p.expiresAt

\* loadTokens has returned, its lookup command has run without failing
Loaded == cli.cmd = "store" /\ cli.pc = "loaded" /\ cli.found

\* C28: a load that follows a completed save of p, with no other save or
\* delete in between, returns a pair equal to p in access token, refresh
\* token and expiry; a load returns null when nothing is stored or when the
\* stored secret is no JSON object
C28_StoreRoundTrip ==
    Loaded =>
        /\ cli.fresh => SamePair(cli.loaded, cli.pair)
        /\ store.kind /= "json" => cli.loaded.isNull

\* the round trip of a pair whose expiry is a number, and the load of an
\* entry that is no JSON text
RoundTripOfFiniteExpiry ==
    Loaded =>
        /\ cli.fresh /\ cli.pair.expiresAt.t = "num" =>
              SamePair(cli.loaded, cli.pair)
        /\ store.kind \in {"absent", "garbage"} => cli.loaded.isNull

\* ------------------------------------------------ the stored token as it is
NoExpiry == store.expiresAt.t \in {"undefined", "null"}
ExpiresLater == store.expiresAt.t = "num" /\ store.expiresAt.v >= now + 5 * 60 * 1000
InBufferWithoutRefreshToken ==
    /\ store.expiresAt.t = "num" /\ store.expiresAt.v < now + 5 * 60 * 1000
    /\ ~Truthy(store.refreshToken)

\* C29: getValidAccessToken returns the stored access token as it is, with no
\* request to the token endpoint and no write to the keychain, when the
\* stored pair has no expiry, or an expiry at least 5 minutes ahead, or an
\* expiry inside the buffer and no refresh token
C29_StoredTokenReturnedAsIs ==
    [][ \A c \in Calls :
          /\ StepOf(c) /\ call[c].pc = "load" /\ call[c].flow = "startup"
          /\ StoredPair
          /\ (NoExpiry \/ ExpiresLater \/ InBufferWithoutRefreshToken)
          => /\ Returned(c, store.accessToken)
             /\ call'[c].tokenReqs = 0
             /\ store' = store ]_vars

\* a pair inside the buffer and without refresh token: its access token is
\* the bearer of the first request and no token request was made
C29_Witness ==
    \E c \in Calls :
        /\ call[c].inst = c /\ call[c].flow = "startup" /\ call[c].pc = "fetch"
        /\ call[c].tokenReqs = 0
        /\ InBufferWithoutRefreshToken
        /\ call[c].bearers = <<store.accessToken>>
        /\ store.accessToken = "A0"

\* ------------------------------------------- mark_as_read without a target
\* a mark_as_read invocation with neither item_ids nor stream_id
Neither(c) ==
    /\ call[c].op.name = "mark_as_read"
    /\ ~call[c].op.given /\ ~Truthy(call[c].op.stream_id)

\* C30: a mark_as_read invocation with neither an id list nor a stream id
\* ends in its first step with the error payload "Provide either item_ids or
\* stream_id": no client is constructed or used, the keychain is not read or
\* written, and no request is sent
C30_NeitherIsRefusedLocally ==
    [][ \A c \in Calls : Neither(c) /\ StepOf(c) =>
          /\ call[c].pc = "idle" /\ call'[c].pc = "done"
          /\ call'[c].reply = Reply("error", TRUE, MsgEither, 0)
          /\ call'[c].reply.isError
          /\ call'[c].inst = 0 /\ call'[c].flow = call[c].flow
          /\ call'[c].req = NoReq
          /\ call'[c].bearers = <<>> /\ call'[c].log = <<>>
          /\ call'[c].tokenReqs = 0
          /\ client' = client /\ accessToken' = accessToken
          /\ store' = store ]_vars

\* such an invocation was refused in a process that never built a client
C30_Witness ==
    \E c \in Calls :
        /\ Neither(c) /\ Done(c)
        /\ call[c].reply.text = MsgEither
        /\ client = 0
        /\ \A e \in Calls : call[e].inst = 0 /\ call[e].pc \in {"idle", "done"}
====
